---- MODULE Spec2Model ----
(***************************************************************************)
(* Model of the IODD engine of avgz-nne/opc-ua:                            *)
(*   src/iodd/iodd.py               IODD.__post_init__,                    *)
(*                                  IODD.parse_information_points,         *)
(*                                  IODD.iodd_to_value_index               *)
(*   src/iodd/information_point.py  InformationPoint.convert_bounds,       *)
(*                                  convert_display_format,                *)
(*                                  byte_to_real_value                     *)
(*   src/iodd/iodd_helpers.py       iodd_unitcodes                         *)
(*                                                                         *)
(* Numbers.  Python ints are unbounded and the floats used here are kept   *)
(* dyadic (multiples of 1/8), for which IEEE-754 arithmetic is exact.      *)
(* Every numeric value the decoder returns is held as an integer count of  *)
(* 1/Scale, Scale = 8 * 10^2, so that k/8 and any decimal with up to two   *)
(* digits are both representable.  Gradients and offsets are counts of     *)
(* 1/8.  Optional values are sequences: None is <<>>, a present x is <<x>>. *)
(* Strings that the code parses are sequences of one-character strings.    *)
(***************************************************************************)
EXTENDS Integers, Sequences, FiniteSets, TLC

VARIABLES
    doc,                \* the schema document handed to IODD(...)
    units_file,         \* whether IODD-StandardUnitDefinitions1.1.xml is found
    pc,                 \* "new" before IODD.__post_init__, then "compiled" or "failed"
    error,              \* exception raised by IODD.__post_init__, "none" if none
    family,             \* IODD.family
    total_bit_length,   \* IODD.total_bit_length (None before parsing)
    information_points, \* IODD.information_points
    byte_values,        \* the PDI byte array the gateway delivers for the device
    decoded_ip,         \* index (1-based) of the InformationPoint last decoded, 0 if none
    decoded_signed,     \* the signed argument of that byte_to_real_value call
    result,             \* what that call returned or raised
    first_call,         \* history: the first byte_to_real_value call and its outcome
    ports,              \* main's ports list: connected, sensor, iodd per port
    main_pc,            \* where main's while loop stands, or "crashed"
    main_error,         \* the exception that ended main, "none" if none
    change_made,        \* what check_connections returned last
    name_reads,         \* sensor_name per port, check_connections' local: what
                        \* name_node.read_value() gave, until main moves on
    connections,        \* the rows of the connections table, one per port
    rows,               \* the rows the last record_readings call inserted
    committed,          \* whether that call reached con.commit()
    app_constructed,    \* the IODD objects app.py built from the document
    app_response,       \* what the last /collection request answered
    callers             \* the byte_to_real_value calls of concurrent callers

\* The fields of the IODD object.
iodd_vars == <<family, total_bit_length, information_points>>

\* The last byte_to_real_value call.
call_vars == <<decoded_ip, decoded_signed, result, first_call>>

\* The state of main in opcua_to_sqlite.py.
main_vars == <<ports, main_pc, main_error, change_made, name_reads,
               connections, rows, committed>>

\* The state of the dashboard process of app.py.
app_vars == <<app_constructed, app_response>>

vars == <<doc, units_file, pc, error, iodd_vars, byte_values, call_vars, main_vars,
          app_vars, callers>>

(***************************************************************************)
(* Python primitives                                                       *)
(***************************************************************************)

None == <<>>

Some(x) == <<x>>

Val(o) == o[1]

\* Denominator of the dyadic floats of the model.
FracDen == 2 * 2 * 2

\* Largest display_format the fixed-point values can hold.
MaxDigits == 1 + 1

RECURSIVE Pow(_, _)
Pow(b, e) == IF e = 0 THEN 1 ELSE b * Pow(b, e - 1)

Scale == FracDen * Pow(10, MaxDigits)

\* int(x): truncation toward zero of the quotient a / b (b > 0).
PyIntOfQuotient(a, b) == IF a >= 0 THEN a \div b ELSE -((-a) \div b)

\* range(lo, hi) as a list.
PyRange(lo, hi) == IF hi > lo THEN [k \in 1..(hi - lo) |-> lo + k - 1] ELSE <<>>

\* lst[i] with Python's index rules: 0-based, negative indices count from the
\* end, anything else raises IndexError.
PyInBounds(lst, i) == (-Len(lst) <= i) /\ (i < Len(lst))

PyGet(lst, i) == IF i >= 0 THEN lst[i + 1] ELSE lst[Len(lst) + i + 1]

\* lst[start:end] with Python's slice rules (step 1).
PyClamp(n, i) == IF i < 0 THEN (IF n + i < 0 THEN 0 ELSE n + i)
                          ELSE (IF i > n THEN n ELSE i)

PySlice(lst, start, end) ==
    LET s == PyClamp(Len(lst), start)
        e == PyClamp(Len(lst), end)
    IN  IF s < e THEN SubSeq(lst, s + 1, e) ELSE <<>>

\* int.from_bytes(bs, byteorder="big", signed=False)
RECURSIVE BigEndianUnsigned(_)
BigEndianUnsigned(bs) ==
    IF bs = <<>> THEN 0
    ELSE 256 * BigEndianUnsigned(SubSeq(bs, 1, Len(bs) - 1)) + bs[Len(bs)]

\* Variant of IntFromBytes that reads the list least significant byte first.
RECURSIVE LittleEndianUnsigned(_)
LittleEndianUnsigned(bs) ==
    IF bs = <<>> THEN 0
    ELSE bs[1] + 256 * LittleEndianUnsigned(Tail(bs))

IntFromBytesLittleEndian(bs, signed) ==
    LET u == LittleEndianUnsigned(bs)
    IN  IF signed /\ bs # <<>> /\ bs[Len(bs)] >= 128 THEN u - Pow(256, Len(bs)) ELSE u

\* int.from_bytes(bs, byteorder="big", signed=signed)
IntFromBytes(bs, signed) ==
    LET u == BigEndianUnsigned(bs)
    IN  IF signed /\ bs # <<>> /\ bs[1] >= 128 THEN u - Pow(256, Len(bs)) ELSE u

\* byte_value & (1 << k) # 0 for a Python int (two's complement with infinite
\* sign extension), 0 <= k.
BitSet(v, k) == ((v \div Pow(2, k)) % 2) = 1

\* int(bits, 2) for a list of 0/1 digits joined to a string; needs bits # <<>>.
RECURSIVE IntBase2(_)
IntBase2(bits) ==
    IF bits = <<>> THEN 0
    ELSE 2 * IntBase2(SubSeq(bits, 1, Len(bits) - 1)) + bits[Len(bits)]

\* round(v, d) for a float v that is a multiple of 1/8: correctly rounded to d
\* decimal digits, ties to even.  v and the result are counts of 1/Scale.
PyRound(v, d) ==
    LET step == Scale \div Pow(10, d)
        q    == v \div step
        r    == v % step
    IN  IF 2 * r < step THEN q * step
        ELSE IF 2 * r > step THEN (q + 1) * step
        ELSE IF q % 2 = 0 THEN q * step ELSE (q + 1) * step

(***************************************************************************)
(* The schema document (the XML tree that ET.parse returns), reduced to    *)
(* the elements and attributes that IODD reads:                            *)
(*   doc.family      productId of each DeviceVariant                       *)
(*   doc.bitLength   bitLength of ProcessDataIn/Datatype                   *)
(*   doc.records     the RecordItem children of ProcessDataIn/Datatype,    *)
(*                   each [textId, bitOffset, subindex, simple, datatypeId]*)
(*                   where simple is the inline SimpleDatatype (or None)   *)
(*                   and a datatype is [bitLength, valueRange]             *)
(*   doc.texts       ExternalTextCollection/PrimaryLanguage: textId->value *)
(*   doc.datatypes   DatatypeCollection: id -> datatype                    *)
(*   doc.menus       the Menu elements, each [id, ref]; id is              *)
(*                   [prefix, segs]: whether the id starts with            *)
(*                   M_MR_SR_Observation, and the "_"-separated segments   *)
(*                   after it; ref is the RecordItemRef (or None),         *)
(*                   [subindex, gradient, offset, displayFormat, unitCode] *)
(***************************************************************************)

\* IODD-StandardUnitDefinitions1.1.xml: Unit elements, code -> abbr.
UnitTable == (1001 :> "degC") @@ (1010 :> "m") @@ (1137 :> "bar")

\* iodd_unitcodes: the dictionary code -> abbreviation for the codes a
\* document uses, plus the entry for None.  Keys are optional ints.
UnitCodesInput(d) ==
    {Val(d.menus[m].ref).unitCode :
        m \in {k \in DOMAIN d.menus :
                 /\ d.menus[k].ref # None
                 /\ Val(d.menus[k].ref).unitCode # None}}

iodd_unitcodes_fails(codes) == \E c \in codes : Val(c) \notin DOMAIN UnitTable

iodd_unitcodes(codes) ==
    [c \in codes \cup {None} |-> IF c = None THEN "N/A" ELSE UnitTable[Val(c)]]

\* The InformationPoint dataclass with its defaults.
InformationPoint(name, bit_offset, bit_length, subindex) ==
    [name |-> name, bit_offset |-> bit_offset, bit_length |-> bit_length,
     subindex |-> subindex, low_val |-> None, up_val |-> None,
     gradient |-> None, offset |-> None, display_format |-> None,
     unit_code |-> None, units |-> None, value_indices |-> <<>>]

\* Variant of RecordData that takes the first shared Datatype for every
\* DatatypeRef, whatever its datatypeId.
RecordDataFirstShared(d, rec) ==
    IF rec.simple # None THEN rec.simple
    ELSE IF rec.datatypeId \in DOMAIN d.datatypes
         THEN Some(d.datatypes[1])
         ELSE None

\* Pass 1, lines 93-132: the datatype of a record, inline or by reference.
RecordData(d, rec) ==
    IF rec.simple # None THEN rec.simple
    ELSE IF rec.datatypeId \in DOMAIN d.datatypes
         THEN Some(d.datatypes[rec.datatypeId])
         ELSE None

RecordFails(d, rec) ==
    \/ rec.textId \notin DOMAIN d.texts
    \/ RecordData(d, rec) = None

\* Variant of RecordPoint that looks the name up under the record's subindex
\* instead of the textId of its Name element.
RecordPointNamedBySubindex(d, rec) ==
    LET data == Val(RecordData(d, rec))
        bit_length == IF data.bitLength = None THEN 1 ELSE Val(data.bitLength)
        ip == InformationPoint(d.texts[rec.subindex], rec.bitOffset,
                               bit_length, rec.subindex)
    IN  IF data.valueRange # None
        THEN [ip EXCEPT !.low_val = Some(Val(data.valueRange).lowerValue),
                        !.up_val  = Some(Val(data.valueRange).upperValue)]
        ELSE ip

\* Lines 93-132: the InformationPoint of one record.
RecordPoint(d, rec) ==
    LET data == Val(RecordData(d, rec))
        bit_length == IF data.bitLength = None THEN 1 ELSE Val(data.bitLength)
        ip == InformationPoint(d.texts[rec.textId], rec.bitOffset,
                               bit_length, rec.subindex)
    IN  IF data.valueRange # None
        THEN [ip EXCEPT !.low_val = Some(Val(data.valueRange).lowerValue),
                        !.up_val  = Some(Val(data.valueRange).upperValue)]
        ELSE ip

Pass1Fails(d) == \E r \in DOMAIN d.records : RecordFails(d, d.records[r])

Pass1(d) == [r \in DOMAIN d.records |-> RecordPoint(d, d.records[r])]

\* Lines 136-143: re.search("^M_MR_SR_Observation(_[^_]*)?(_{unit})?$", id)
\* for any key of the unit dictionary.  A segment is a unit code (an optional
\* int, None for the text "None") or some other text.
MenuMatches(id, units) ==
    /\ id.prefix
    /\ \/ Len(id.segs) <= 1
       \/ /\ Len(id.segs) = 2
          /\ id.segs[2].isCode
          /\ id.segs[2].code \in DOMAIN units

\* Variant of ApplyMenu that keeps what a descriptor already has where the
\* RecordItemRef leaves an attribute out.
ApplyMenuKeepingEarlier(ips, ref, units) ==
    [i \in DOMAIN ips |->
        IF ips[i].subindex = ref.subindex
        THEN [ips[i] EXCEPT
                 !.gradient = IF ref.gradient = None THEN @ ELSE ref.gradient,
                 !.offset = IF ref.offset = None THEN @ ELSE ref.offset,
                 !.display_format =
                     IF ref.displayFormat = None THEN @ ELSE ref.displayFormat,
                 !.unit_code = IF ref.unitCode = None THEN @ ELSE ref.unitCode,
                 !.units = IF ref.unitCode = None /\ @ # None THEN @
                           ELSE Some(units[ref.unitCode])]
        ELSE ips[i]]

\* Lines 149-168: one matching menu applied to the descriptor list.
ApplyMenu(ips, ref, units) ==
    [i \in DOMAIN ips |->
        IF ips[i].subindex = ref.subindex
        THEN [ips[i] EXCEPT !.gradient = ref.gradient,
                            !.offset = ref.offset,
                            !.display_format = ref.displayFormat,
                            !.unit_code = ref.unitCode,
                            !.units = Some(units[ref.unitCode])]
        ELSE ips[i]]

\* Variant of Pass2 that applies every menu with a RecordItemRef, whatever
\* its id.
RECURSIVE Pass2IgnoringIdentifier(_, _, _)
Pass2IgnoringIdentifier(ips, menus, units) ==
    IF menus = <<>> THEN ips
    ELSE LET m == Head(menus)
             next == IF m.ref # None
                     THEN ApplyMenu(ips, Val(m.ref), units)
                     ELSE ips
         IN  Pass2IgnoringIdentifier(next, Tail(menus), units)

\* Lines 135-168: the menus in document order.
RECURSIVE Pass2(_, _, _)
Pass2(ips, menus, units) ==
    IF menus = <<>> THEN ips
    ELSE LET m == Head(menus)
             next == IF MenuMatches(m.id, units) /\ m.ref # None
                     THEN ApplyMenu(ips, Val(m.ref), units)
                     ELSE ips
         IN  Pass2(next, Tail(menus), units)

\* str.split(".")[1]: the text between the first and the second "." of s;
\* None when s has no "." (IndexError in the code).
RECURSIVE UpToDot(_)
UpToDot(s) ==
    IF s = <<>> \/ Head(s) = "." THEN <<>> ELSE <<Head(s)>> \o UpToDot(Tail(s))

RECURSIVE AfterFirstDot(_)
AfterFirstDot(s) ==
    IF s = <<>> THEN None
    ELSE IF Head(s) = "." THEN Some(UpToDot(Tail(s)))
    ELSE AfterFirstDot(Tail(s))

\* int(text) for a text of decimal digits; None when it is not one
\* (ValueError in the code).
DigitValue ==
    ("0" :> 0) @@ ("1" :> 1) @@ ("2" :> 2) @@ ("3" :> 3) @@ ("4" :> 4) @@
    ("5" :> 5) @@ ("6" :> 6) @@ ("7" :> 7) @@ ("8" :> 8) @@ ("9" :> 9)

RECURSIVE DigitsValue(_)
DigitsValue(s) ==
    IF s = <<>> THEN 0
    ELSE 10 * DigitsValue(SubSeq(s, 1, Len(s) - 1)) + DigitValue[s[Len(s)]]

PyIntOfText(s) ==
    IF s # <<>> /\ \A k \in DOMAIN s : s[k] \in DOMAIN DigitValue
    THEN Some(DigitsValue(s))
    ELSE None

\* InformationPoint.convert_display_format, lines 81-88.
convert_display_format_fails(ip) ==
    /\ ip.display_format # None
    /\ \/ AfterFirstDot(Val(ip.display_format)) = None
       \/ PyIntOfText(Val(AfterFirstDot(Val(ip.display_format)))) = None

convert_display_format(ip) ==
    IF ip.display_format # None
    THEN [ip EXCEPT !.display_format =
             PyIntOfText(Val(AfterFirstDot(Val(ip.display_format))))]
    ELSE ip

\* round(raw * gradient + offset, display_format) as a count of 1/Scale;
\* gradient and offset are counts of 1/FracDen.  round(x, None) rounds to an
\* integer.
Calibrated(raw, gradient, offset) ==
    (raw * gradient + offset) * (Scale \div FracDen)

ConvertBound(bound, ip) ==
    IF bound # None /\ ip.gradient # None /\ ip.offset # None
    THEN Some(PyRound(Calibrated(Val(bound), Val(ip.gradient), Val(ip.offset)),
                      IF ip.display_format = None THEN 0
                      ELSE Val(ip.display_format)))
    ELSE Some((-1) * Scale)

\* convert_bounds run a second time on the bounds it has converted (counts
\* of 1/Scale, multiples of Scale \div 10^MaxDigits = FracDen).
ConvertedAgain(bound, ip) ==
    IF ip.gradient # None /\ ip.offset # None
    THEN Some(PyRound((Val(bound) \div FracDen) * Val(ip.gradient)
                         + Val(ip.offset) * (Scale \div FracDen),
                      IF ip.display_format = None THEN 0
                      ELSE Val(ip.display_format)))
    ELSE Some((-1) * Scale)

convert_bounds_twice(ip) ==
    [ip EXCEPT !.low_val = ConvertedAgain(ConvertBound(ip.low_val, ip), ip),
               !.up_val  = ConvertedAgain(ConvertBound(ip.up_val, ip), ip)]

\* InformationPoint.convert_bounds, lines 63-79.
convert_bounds(ip) ==
    [ip EXCEPT !.low_val = ConvertBound(ip.low_val, ip),
               !.up_val  = ConvertBound(ip.up_val, ip)]

\* IODD.iodd_to_value_index, lines 174-194, for one InformationPoint.
block_length == 8

\* Variant of NumIndices without the single-index case of lines 185-186.
NumIndicesWithoutElse(bit_length) ==
    PyIntOfQuotient(bit_length, block_length)

NumIndices(bit_length) ==
    IF (bit_length % block_length = 0) /\ (bit_length >= block_length)
    THEN PyIntOfQuotient(bit_length, block_length)
    ELSE 1

\* Variant of StartIndex that measures from the field's low end.
StartIndexFromLowEnd(total, bit_offset, bit_length) ==
    PyIntOfQuotient(total - bit_offset, block_length)

StartIndex(total, bit_offset, bit_length) ==
    PyIntOfQuotient(total - (bit_offset + bit_length), block_length)

ValueIndices(total, bit_offset, bit_length) ==
    PyRange(StartIndex(total, bit_offset, bit_length),
            StartIndex(total, bit_offset, bit_length) + NumIndices(bit_length))

iodd_to_value_index(ips, total) ==
    [idx \in DOMAIN ips |->
        [ips[idx] EXCEPT !.value_indices =
            ValueIndices(total, ips[idx].bit_offset, ips[idx].bit_length)]]

(***************************************************************************)
(* InformationPoint.byte_to_real_value, lines 90-130 (byteorder is always  *)
(* the default "big").  The outcome is [kind, val]: kind "value" with the  *)
(* returned number as a count of 1/Scale, or the name of the exception     *)
(* raised, with val 0.                                                     *)
(***************************************************************************)
Returned(v) == [kind |-> "value", val |-> v]

Raised(e) == [kind |-> e, val |-> 0]

NoResult == [kind |-> "none", val |-> 0]

\* [byte_values[i] for i in self.value_indices]
SelectionInBounds(ip, bv) ==
    \A k \in DOMAIN ip.value_indices : PyInBounds(bv, ip.value_indices[k])

Selection(ip, bv) ==
    [k \in DOMAIN ip.value_indices |-> PyGet(bv, ip.value_indices[k])]

\* Variant of SubByteValue that counts bit_offset from the most significant
\* bit.
SubByteValueFromHighEnd(ip, bv, signed) ==
    LET byte_value  == IntFromBytes(Selection(ip, bv), signed)
        bit_list    == [n \in 1..8 |-> IF BitSet(byte_value, 7 - (n - 1)) THEN 1 ELSE 0]
        start_index == ip.bit_offset
        end_index   == start_index + ip.bit_length
        bits        == PySlice(bit_list, start_index, end_index)
    IN  IF bits = <<>> THEN Raised("ValueError")
        ELSE Returned(IntBase2(bits) * Scale)

\* Variant of SubByteValue that calibrates the extracted bits like lines
\* 112-130 do.
SubByteValueCalibrated(ip, bv, signed) ==
    LET byte_value  == IntFromBytes(Selection(ip, bv), signed)
        bit_list    == [n \in 1..8 |-> IF BitSet(byte_value, 7 - (n - 1)) THEN 1 ELSE 0]
        start_index == 8 - (ip.bit_offset + ip.bit_length)
        end_index   == start_index + ip.bit_length
        bits        == PySlice(bit_list, start_index, end_index)
        gradient    == IF ip.gradient = None THEN FracDen ELSE Val(ip.gradient)
        offset      == IF ip.offset = None THEN 0 ELSE Val(ip.offset)
    IN  IF bits = <<>> THEN Raised("ValueError")
        ELSE Returned(Calibrated(IntBase2(bits), gradient, offset))

\* Lines 101-110.
SubByteValue(ip, bv, signed) ==
    LET byte_value  == IntFromBytes(Selection(ip, bv), signed)
        bit_list    == [n \in 1..8 |-> IF BitSet(byte_value, 7 - (n - 1)) THEN 1 ELSE 0]
        start_index == 8 - (ip.bit_offset + ip.bit_length)
        end_index   == start_index + ip.bit_length
        bits        == PySlice(bit_list, start_index, end_index)
    IN  IF bits = <<>> THEN Raised("ValueError")
        ELSE Returned(IntBase2(bits) * Scale)

\* Variant of CalibratedValue that adds the offset before it scales.
CalibratedValueOffsetFirst(ip, bv, signed) ==
    LET gradient == IF ip.gradient = None THEN FracDen ELSE Val(ip.gradient)
        offset   == IF ip.offset = None THEN 0 ELSE Val(ip.offset)
        raw      == IntFromBytes(Selection(ip, bv), signed)
        value    == ((raw * FracDen + offset) * gradient * (Scale \div FracDen))
                        \div FracDen
    IN  IF ip.display_format # None
        THEN Returned(PyRound(value, Val(ip.display_format)))
        ELSE Returned(value)

\* Lines 112-130.
CalibratedValue(ip, bv, signed) ==
    LET gradient == IF ip.gradient = None THEN FracDen ELSE Val(ip.gradient)
        offset   == IF ip.offset = None THEN 0 ELSE Val(ip.offset)
        value    == Calibrated(IntFromBytes(Selection(ip, bv), signed),
                               gradient, offset)
    IN  IF ip.display_format # None
        THEN Returned(PyRound(value, Val(ip.display_format)))
        ELSE Returned(value)

\* Variant of byte_to_real_value that reads bytes missing from the array as
\* a reading of 0 instead of raising.
byte_to_real_value_lenient(ip, bv, signed) ==
    IF ~SelectionInBounds(ip, bv) THEN Returned(0)
    ELSE IF (ip.bit_length % 8 # 0) /\ (Len(ip.value_indices) = 1)
         THEN SubByteValue(ip, bv, signed)
         ELSE CalibratedValue(ip, bv, signed)

byte_to_real_value(ip, bv, signed) ==
    IF (ip.bit_length % 8 # 0) /\ (Len(ip.value_indices) = 1)
    THEN IF SelectionInBounds(ip, bv)
         THEN SubByteValue(ip, bv, signed)
         ELSE Raised("IndexError")
    ELSE IF SelectionInBounds(ip, bv)
         THEN CalibratedValue(ip, bv, signed)
         ELSE Raised("IndexError")

(***************************************************************************)
(* Operations                                                              *)
(***************************************************************************)

\* IODD.parse_information_points, lines 58-172: the exception it raises, or
\* "none".
ParseError(d) ==
    IF iodd_unitcodes_fails(UnitCodesInput(d)) THEN "AttributeError"
    ELSE IF Pass1Fails(d) THEN "AttributeError"
    ELSE LET joined == Pass2(Pass1(d), d.menus, iodd_unitcodes(UnitCodesInput(d)))
             failing == {i \in DOMAIN joined : convert_display_format_fails(joined[i])}
             first == CHOOSE i \in failing : \A j \in failing : i <= j
         IN  IF failing = {} THEN "none"
             ELSE IF AfterFirstDot(Val(joined[first].display_format)) = None
                  THEN "IndexError"
                  ELSE "ValueError"

\* The descriptor list it leaves in self.information_points.
parse_information_points(d) ==
    LET units  == iodd_unitcodes(UnitCodesInput(d))
        joined == Pass2(Pass1(d), d.menus, units)
        final  == [i \in DOMAIN joined |->
                      convert_bounds(convert_display_format(joined[i]))]
    IN  iodd_to_value_index(final, d.bitLength)

\* IODD(file) with an iodd_unitcodes that does not look for the file.
CompileErrorWithoutUnitsFile(d, found) ==
    IF ~d.pdin THEN "AttributeError"
    ELSE ParseError(d)

\* IODD.__post_init__, lines 32-56: the exception IODD(file) raises, or
\* "none".  records.get on line 54 fails when ProcessDataIn has no Datatype;
\* iodd_unitcodes raises FileNotFoundError (iodd_helpers.py 16-20) before any
\* unit is looked up.
CompileError(d, found) ==
    IF ~d.pdin THEN "AttributeError"
    ELSE IF ~found THEN "FileNotFoundError"
    ELSE ParseError(d)

\* IODD(file) compiles the document.
IODD_post_init ==
    /\ pc = "new"
    /\ family' = doc.family
    /\ total_bit_length' = IF doc.pdin THEN Some(doc.bitLength) ELSE None
    /\ IF CompileError(doc, units_file) = "none"
       THEN /\ information_points' = parse_information_points(doc)
            /\ error' = "none"
            /\ pc' = "compiled"
       ELSE /\ information_points' = <<>>
            /\ error' = CompileError(doc, units_file)
            /\ pc' = "failed"
    /\ UNCHANGED <<app_vars, callers, doc, units_file, byte_values, call_vars, main_vars>>

\* No byte_to_real_value call made yet.
NoCall == [ip |-> 0, signed |-> TRUE, outcome |-> NoResult, interleaved |-> FALSE]

\* ip.byte_to_real_value(byte_values, signed=signed) on a descriptor of the
\* compiled IODD (record_readings, line 69, calls it with the default signed).
\* The method assigns to no attribute of self and to no element of
\* byte_values.  first_call keeps the first call made and its outcome, and
\* whether a call with another descriptor or signed argument followed it.
DecodeReversingIndices ==
    /\ pc = "compiled"
    /\ \E i \in DOMAIN information_points, signed \in BOOLEAN :
          LET indices == information_points[i].value_indices
              n == Len(indices)
          IN  /\ decoded_ip' = i
              /\ decoded_signed' = signed
              /\ result' = byte_to_real_value(information_points[i], byte_values,
                                              signed)
              /\ information_points' =
                    [information_points EXCEPT ![i].value_indices =
                        [k \in 1..n |-> indices[n + 1 - k]]]
              /\ first_call' =
                    IF first_call = NoCall
                    THEN [ip |-> i, signed |-> signed, outcome |-> result',
                          interleaved |-> FALSE]
                    ELSE IF first_call.ip = i /\ first_call.signed = signed
                         THEN first_call
                         ELSE [first_call EXCEPT !.interleaved = TRUE]
    /\ UNCHANGED <<app_vars, callers, doc, units_file, pc, error, family, total_bit_length,
                   byte_values, main_vars>>

Decode ==
    /\ pc = "compiled"
    /\ \E i \in DOMAIN information_points, signed \in BOOLEAN :
          /\ decoded_ip' = i
          /\ decoded_signed' = signed
          /\ result' = byte_to_real_value(information_points[i], byte_values, signed)
          /\ first_call' =
                IF first_call = NoCall
                THEN [ip |-> i, signed |-> signed, outcome |-> result',
                      interleaved |-> FALSE]
                ELSE IF first_call.ip = i /\ first_call.signed = signed
                     THEN first_call
                     ELSE [first_call EXCEPT !.interleaved = TRUE]
    /\ UNCHANGED <<app_vars, callers, doc, units_file, pc, error, iodd_vars, byte_values, main_vars>>

Next == IODD_post_init \/ Decode

(***************************************************************************)
(* opcua_to_sqlite.py: main's loop over check_connections,                 *)
(* match_port_to_iodd and record_readings.  load_collection has compiled   *)
(* the collection, here the one IODD, before the loop starts.              *)
(***************************************************************************)

\* What name_node.read_value() gives: None when it raises BadNotConnected,
\* else the product name, which may be the empty string.
ProductNames == {"", "TV7105", "O5D100"}

NameReads == {None} \cup {Some(n) : n \in ProductNames}

\* check_connections, lines 120-147, for one port.
CheckedPort(port, read) ==
    IF read # None
    THEN IF ~port.connected /\ Val(read) # ""
         THEN [port EXCEPT !.connected = TRUE, !.sensor = read]
         ELSE port
    ELSE IF port.connected
         THEN [port EXCEPT !.connected = FALSE, !.sensor = None]
         ELSE port

CheckedConnection(port, connection, read) ==
    IF read # None
    THEN IF ~port.connected /\ Val(read) # ""
         THEN [connected |-> "True", sensor |-> Val(read)]
         ELSE connection
    ELSE IF port.connected
         THEN [connected |-> "False", sensor |-> "N/A"]
         ELSE connection

\* check_connections, lines 107-149, and main, lines 236-238.
CheckConnections ==
    /\ pc = "compiled"
    /\ main_pc = "check"
    /\ \E reads \in [DOMAIN ports -> NameReads] :
          /\ name_reads' = reads
          /\ ports' = [i \in DOMAIN ports |-> CheckedPort(ports[i], reads[i])]
          /\ connections' =
                [i \in DOMAIN ports |->
                    CheckedConnection(ports[i], connections[i], reads[i])]
          /\ change_made' = (\E i \in DOMAIN ports : ports'[i] # ports[i])
          /\ main_pc' = IF change_made' THEN "match" ELSE "record"
    /\ UNCHANGED <<app_vars, callers, doc, units_file, pc, error, iodd_vars, byte_values, call_vars,
                   main_error, rows, committed>>

\* match_port_to_iodd, lines 96-103, for one port against the collection.
InFamily(sensor) == \E k \in DOMAIN family : family[k] = sensor

MatchedPort(port) ==
    IF port.sensor # None /\ InFamily(Val(port.sensor))
    THEN [port EXCEPT !.iodd = Some(1)]
    ELSE port

Unmatched(port) == port.sensor # None /\ MatchedPort(port).iodd = None

\* match_port_to_iodd removing the names of the matched sensors from
\* iodd.family.
MatchPortToIoddNarrowingFamily ==
    /\ pc = "compiled"
    /\ main_pc = "match"
    /\ name_reads' = [i \in DOMAIN ports |-> None]
    /\ LET unmatched == {i \in DOMAIN ports : Unmatched(ports[i])}
           first == CHOOSE i \in unmatched : \A j \in unmatched : i <= j
           sensors == {Val(ports[i].sensor) :
                          i \in {j \in DOMAIN ports :
                                    ports[j].sensor # None
                                    /\ InFamily(Val(ports[j].sensor))}}
       IN  /\ family' = SelectSeq(family, LAMBDA n : n \notin sensors)
           /\ IF unmatched = {}
              THEN /\ ports' = [i \in DOMAIN ports |-> MatchedPort(ports[i])]
                   /\ main_pc' = "record"
                   /\ main_error' = "none"
              ELSE /\ ports' = [i \in DOMAIN ports |->
                                   IF i < first THEN MatchedPort(ports[i])
                                   ELSE ports[i]]
                   /\ main_pc' = "crashed"
                   /\ main_error' = "IODDNotFoundError"
    /\ UNCHANGED <<app_vars, callers, doc, units_file, pc, error, total_bit_length,
                   information_points, byte_values, call_vars, change_made,
                   connections, rows, committed>>

\* match_port_to_iodd, lines 89-104: the ports list is updated in place up
\* to the first port whose sensor no IODD lists, where IODDNotFoundError
\* leaves main.
MatchPortToIodd ==
    /\ pc = "compiled"
    /\ main_pc = "match"
    /\ name_reads' = [i \in DOMAIN ports |-> None]
    /\ LET unmatched == {i \in DOMAIN ports : Unmatched(ports[i])}
           first == CHOOSE i \in unmatched : \A j \in unmatched : i <= j
       IN  IF unmatched = {}
           THEN /\ ports' = [i \in DOMAIN ports |-> MatchedPort(ports[i])]
                /\ main_pc' = "record"
                /\ main_error' = "none"
           ELSE /\ ports' = [i \in DOMAIN ports |->
                                IF i < first THEN MatchedPort(ports[i])
                                ELSE ports[i]]
                /\ main_pc' = "crashed"
                /\ main_error' = "IODDNotFoundError"
    /\ UNCHANGED <<app_vars, callers, doc, units_file, pc, error, iodd_vars, byte_values, call_vars,
                   change_made, connections, rows, committed>>

\* sqlite_extension.py: FloatList.__init__ (line 72) and StringList.__init__
\* (line 45), on what record_readings hands them.
FloatOf(bound) == IF bound = None THEN (-1) * Scale ELSE Val(bound)

StrOf(text) == IF text = None THEN "None" ELSE Val(text)

\* record_readings, lines 61-85, for one connected port: the exception that
\* leaves the function, or "none".
ReadingError(port) ==
    IF port.iodd = None THEN "AttributeError"
    ELSE LET raising == {i \in DOMAIN information_points :
                            byte_to_real_value(information_points[i], byte_values,
                                               FALSE).kind # "value"}
             first == CHOOSE i \in raising : \A j \in raising : i <= j
         IN  IF raising = {} THEN "none"
             ELSE byte_to_real_value(information_points[first], byte_values,
                                     FALSE).kind

\* Lines 62-72: the five lists after the loop has appended the entries of
\* the first n descriptors.
RECURSIVE ReadingListsSkippingNoUnit(_)
RECURSIVE ReadingLists(_)
ReadingListsSkippingNoUnit(n) ==
    IF n = 0
    THEN [information_points |-> <<>>, values |-> <<>>, lower_bounds |-> <<>>,
          upper_bounds |-> <<>>, units |-> <<>>]
    ELSE LET lists == ReadingListsSkippingNoUnit(n - 1)
             ip == information_points[n]
         IN  [information_points |-> Append(lists.information_points, ip.name),
              values |-> Append(lists.values,
                                byte_to_real_value(ip, byte_values, FALSE).val),
              lower_bounds |-> Append(lists.lower_bounds, ip.low_val),
              upper_bounds |-> Append(lists.upper_bounds, ip.up_val),
              units |-> IF ip.units = None THEN lists.units
                        ELSE Append(lists.units, ip.units)]

ReadingLists(n) ==
    IF n = 0
    THEN [information_points |-> <<>>, values |-> <<>>, lower_bounds |-> <<>>,
          upper_bounds |-> <<>>, units |-> <<>>]
    ELSE LET lists == ReadingLists(n - 1)
             ip == information_points[n]
         IN  [information_points |-> Append(lists.information_points, ip.name),
              values |-> Append(lists.values,
                                byte_to_real_value(ip, byte_values, FALSE).val),
              lower_bounds |-> Append(lists.lower_bounds, ip.low_val),
              upper_bounds |-> Append(lists.upper_bounds, ip.up_val),
              units |-> Append(lists.units, ip.units)]

\* Lines 74-85: the row inserted into the table of the port; StringList and
\* FloatList convert the lists entry by entry.
Reading(id, port) ==
    LET lists == ReadingLists(Len(information_points))
    IN  [port |-> id,
         name |-> StrOf(port.sensor),
         ips |-> lists.information_points,
         readings |-> lists.values,
         lower_limits |-> [i \in DOMAIN lists.lower_bounds |->
                              FloatOf(lists.lower_bounds[i])],
         upper_limits |-> [i \in DOMAIN lists.upper_bounds |->
                              FloatOf(lists.upper_bounds[i])],
         units |-> [i \in DOMAIN lists.units |-> StrOf(lists.units[i])]]

\* The rows inserted for the ports 1..n, in port order.
RECURSIVE Readings(_)
Readings(n) ==
    IF n = 0 THEN <<>>
    ELSE IF ports[n].connected
         THEN Append(Readings(n - 1), Reading(n, ports[n]))
         ELSE Readings(n - 1)

\* record_readings, lines 48-86: a row per connected port, then the commit;
\* an exception of byte_to_real_value leaves the function, and main, before
\* the commit.
RecordReadings ==
    /\ pc = "compiled"
    /\ main_pc = "record"
    /\ name_reads' = [i \in DOMAIN ports |-> None]
    /\ LET failing == {i \in DOMAIN ports :
                          ports[i].connected /\ ReadingError(ports[i]) # "none"}
           first == CHOOSE i \in failing : \A j \in failing : i <= j
       IN  IF failing = {}
           THEN /\ rows' = Readings(Len(ports))
                /\ committed' = TRUE
                /\ main_pc' = "check"
                /\ main_error' = "none"
           ELSE /\ rows' = Readings(first - 1)
                /\ committed' = FALSE
                /\ main_pc' = "crashed"
                /\ main_error' = ReadingError(ports[first])
    /\ UNCHANGED <<app_vars, callers, doc, units_file, pc, error, iodd_vars, byte_values, call_vars,
                   ports, change_made, connections>>

NextMain == Next \/ CheckConnections \/ MatchPortToIodd \/ RecordReadings

\* main, lines 220-234: every port starts disconnected, without sensor or IODD.
InitialPort == [connected |-> FALSE, sensor |-> None, iodd |-> None]

\* init_db, lines 203-206: the connections table starts with
\* (i, "False", "N/A") for every port.
InitialConnection == [connected |-> "False", sensor |-> "N/A"]

NumPorts == 2

\* The state before IODD(file) runs on a document out of Docs, with the unit
\* definitions file found or not as Found says, and with a device whose
\* process data is a byte array out of Arrays.
NumCallers == 2

\* A caller that is not inside byte_to_real_value.
IdleCaller ==
    [pc |-> "idle", ip |-> 0, signed |-> TRUE, bytes |-> <<>>, selected |-> <<>>,
     result |-> NoResult, overlapped |-> FALSE]

InitEnv(Docs, Found, Arrays) ==
    /\ doc \in Docs
    /\ units_file \in Found
    /\ byte_values \in Arrays
    /\ pc = "new"
    /\ error = "none"
    /\ family = <<>>
    /\ total_bit_length = None
    /\ information_points = <<>>
    /\ decoded_ip = 0
    /\ decoded_signed = TRUE
    /\ result = NoResult
    /\ first_call = NoCall
    /\ ports = [i \in 1..NumPorts |-> InitialPort]
    /\ main_pc = "check"
    /\ main_error = "none"
    /\ change_made = FALSE
    /\ name_reads = [i \in 1..NumPorts |-> None]
    /\ connections = [i \in 1..NumPorts |-> InitialConnection]
    /\ rows = <<>>
    /\ committed = FALSE
    /\ app_constructed = 0
    /\ app_response = None
    /\ callers = [c \in 1..NumCallers |-> IdleCaller]

InitDoc(Docs, Arrays) == InitEnv(Docs, {TRUE}, Arrays)

(***************************************************************************)
(* Documents                                                               *)
(***************************************************************************)

\* A RecordItem with an inline SimpleDatatype of the given bitLength.
Record(bit_offset, bit_length, subindex) ==
    [textId |-> subindex, bitOffset |-> bit_offset, subindex |-> subindex,
     simple |-> Some([bitLength |-> Some(bit_length), valueRange |-> None]),
     datatypeId |-> 0]

Texts == <<"Temperature", "Pressure">>

\* The displayFormat text "Dec.N".
DigitText == <<"0", "1", "2", "3", "4", "5", "6", "7", "8", "9">>

DecText(n) == <<"D", "e", "c", ".", DigitText[n + 1]>>

\* A Menu M_MR_SR_Observation with a RecordItemRef to subindex.
Menu(subindex, gradient, offset, displayFormat, unitCode) ==
    [id  |-> [prefix |-> TRUE, segs |-> <<>>],
     ref |-> Some([subindex |-> subindex, gradient |-> gradient,
                   offset |-> offset, displayFormat |-> displayFormat,
                   unitCode |-> unitCode])]

Document(total, records, menus) ==
    [family |-> <<"TV7105">>, pdin |-> TRUE, bitLength |-> total,
     records |-> records, texts |-> Texts, datatypes |-> <<>>, menus |-> menus]

(***************************************************************************)
(* Layout specification: documents without menus whose records range over  *)
(* every bit offset and bit length within the bounds, including records    *)
(* that overrun total_bit_length (the code accepts them), and documents of *)
(* two records placed on a 4-bit grid.                                     *)
(***************************************************************************)
MaxTotalBits == 24

MaxBitOffset == 16

MaxBitLength == 16

MaxArrayLen == 3

LayoutSingles ==
    {Document(t, <<Record(o, l, 1)>>, <<>>) :
        t \in 1..MaxTotalBits, o \in 0..MaxBitOffset, l \in 1..MaxBitLength}

GridOffsets == {o \in 0..MaxBitOffset : o % 4 = 0}

GridLengths == {l \in 1..MaxBitLength : l % 4 = 0}

LayoutPairs ==
    {Document(t, <<Record(o1, l1, 1), Record(o2, l2, 2)>>, <<>>) :
        t \in {u \in 1..MaxTotalBits : u % 8 = 0},
        o1 \in GridOffsets, l1 \in GridLengths,
        o2 \in GridOffsets, l2 \in GridLengths}

ArraysOver(Bytes, maxlen) ==
    UNION {[1..n -> Bytes] : n \in 0..maxlen}

LayoutArrays == ArraysOver({90}, MaxArrayLen)

InitLayout == InitDoc(LayoutSingles \cup LayoutPairs, LayoutArrays)

SpecLayout == InitLayout /\ [][Next]_vars

\* Helpers of the properties.
Compiled == pc = "compiled"

Total == Val(total_bit_length)

IPs == DOMAIN information_points

IndexSet(ip) == {ip.value_indices[k] : k \in DOMAIN ip.value_indices}

Ascending(lst) == \A k \in DOMAIN lst : lst[k] = lst[1] + (k - 1)

Floor8(x) == x \div 8

\* The invariants of the data model: bit_length >= 1 and the field inside the
\* process data.
WellFormed(total, bit_offset, bit_length) ==
    bit_length >= 1 /\ bit_offset >= 0 /\ bit_offset + bit_length <= total

Ceil8(x) == (x + 7) \div 8

ByteAligned(ip) == ip.bit_offset % 8 = 0 /\ ip.bit_length % 8 = 0

BitRange(ip) == ip.bit_offset .. (ip.bit_offset + ip.bit_length - 1)

\* Position, most-significant byte first, of the byte that holds bit k
\* (counted from the least-significant end) in an array for total bits.
BytePosition(total, k) == Ceil8(total) - 1 - (k \div 8)

FitsInOneByte(ip) == (ip.bit_offset % 8) + ip.bit_length <= 8

\* C1: every compiled InformationPoint has value_indices = [start, ...,
\* start + num_indices - 1] with start = floor((total_bit_length -
\* (bit_offset + bit_length)) / 8) and num_indices = bit_length / 8 for a
\* bit_length that is a multiple of 8 and at least 8, else 1; also when
\* bit_offset + bit_length exceeds total_bit_length.
C1_FloorStart ==
    Compiled =>
        \A i \in IPs :
            LET ip    == information_points[i]
                start == Floor8(Total - (ip.bit_offset + ip.bit_length))
                num   == IF ip.bit_length % 8 = 0 /\ ip.bit_length >= 8
                         THEN ip.bit_length \div 8 ELSE 1
            IN  ip.value_indices = [k \in 1..num |-> start + k - 1]

\* C2: for a byte-aligned field in a schema whose total_bit_length is a
\* multiple of 8, value_indices lists exactly the byte positions (most
\* significant byte first) that hold the field's bits, in ascending order; the
\* field at bit_offset 0 ends at the last byte; fields with disjoint bit
\* ranges have disjoint value_indices.
C2_AlignedBytePositions ==
    (Compiled /\ Total % 8 = 0) =>
        /\ \A i \in IPs :
              LET ip == information_points[i]
              IN  ByteAligned(ip) =>
                    /\ IndexSet(ip) = {BytePosition(Total, k) : k \in BitRange(ip)}
                    /\ Ascending(ip.value_indices)
                    /\ Len(ip.value_indices) = Cardinality(IndexSet(ip))
                    /\ (ip.bit_offset = 0 =>
                          ip.value_indices[Len(ip.value_indices)] = Ceil8(Total) - 1)
        /\ \A i, j \in IPs :
              (/\ ByteAligned(information_points[i])
               /\ ByteAligned(information_points[j])
               /\ BitRange(information_points[i]) \cap BitRange(information_points[j]) = {})
              => IndexSet(information_points[i]) \cap IndexSet(information_points[j]) = {}

\* Witness of C2: the boundary example of the specification, total 16 with
\* the field at bit 0 in byte 1 and the field at bit 8 in byte 0.
C2_Witness ==
    /\ Compiled /\ Total = 16 /\ Len(information_points) = 2
    /\ information_points[1].bit_offset = 0 /\ information_points[1].bit_length = 8
    /\ information_points[1].value_indices = <<1>>
    /\ information_points[2].bit_offset = 8 /\ information_points[2].bit_length = 8
    /\ information_points[2].value_indices = <<0>>

\* C3: after compilation a field whose bit_length is a positive multiple of 8
\* has bit_length / 8 value indices, and a field whose bit_length is not a
\* multiple of 8 and that fits in one byte has exactly one.
C3_IndexCount ==
    Compiled =>
        \A i \in IPs :
            LET ip == information_points[i]
            IN  /\ (ip.bit_length > 0 /\ ip.bit_length % 8 = 0)
                      => Len(ip.value_indices) * 8 = ip.bit_length
                /\ (ip.bit_length % 8 # 0 /\ FitsInOneByte(ip))
                      => Len(ip.value_indices) = 1

\* Witness of C3: a compiled 16-bit field with two indices next to a compiled
\* 4-bit field with one.
C3_Witness ==
    /\ Compiled /\ Len(information_points) = 2
    /\ information_points[1].bit_length = 16
    /\ Len(information_points[1].value_indices) = 2
    /\ information_points[2].bit_length = 4
    /\ information_points[2].bit_offset = 4
    /\ Len(information_points[2].value_indices) = 1

\* C4: every compiled InformationPoint has ceil(bit_length / 8) value indices,
\* except that a sub-byte field contained in a single byte has one; a 12-bit
\* field has two.  Stated for the descriptors that satisfy the invariants of
\* the data model, where it already fails.
C4_CeilCount ==
    Compiled =>
        \A i \in IPs :
            LET ip == information_points[i]
            IN  \/ ~WellFormed(Total, ip.bit_offset, ip.bit_length)
                \/ Len(ip.value_indices) = Ceil8(ip.bit_length)
                \/ /\ ip.bit_length % 8 # 0
                   /\ FitsInOneByte(ip)
                   /\ Len(ip.value_indices) = 1

\* C5: a schema with a field whose bit_length is not a multiple of 8 and whose
\* bit range spans more than one byte fails to compile with a DecodeError: no
\* DeviceDescription with such a field exists and no value is decoded for it.
\* Stated for the schemas whose fields all lie inside the process data, where
\* it already fails.
SpanningSubByte(bit_offset, bit_length) ==
    /\ bit_length % 8 # 0
    /\ (bit_length > 8 \/ (bit_offset % 8) + bit_length > 8)

RecordBits(rec) == Val(Val(rec.simple).bitLength)

C5_SpanningRejected ==
    (/\ \A r \in DOMAIN doc.records :
           WellFormed(doc.bitLength, doc.records[r].bitOffset,
                      RecordBits(doc.records[r]))
     /\ \E r \in DOMAIN doc.records :
           SpanningSubByte(doc.records[r].bitOffset, RecordBits(doc.records[r])))
    => /\ pc # "compiled"
       /\ pc = "failed" => error = "DecodeError"
       /\ result.kind # "value"

(***************************************************************************)
(* Sub-byte specification: one record whose bit_length is not a multiple   *)
(* of 8, at every offset within the bound, in process data of one or two   *)
(* bytes, with or without a calibration menu (gradient 2.0, offset 1.0,    *)
(* Dec.1, unit 1001); the process data is a single byte out of            *)
(* SubByteBytes, or up to two bytes out of 0x5A and 0xA5.                  *)
(***************************************************************************)
MaxSubTotal == 16

MaxSubOffset == 9

MaxSubLength == 9

SubByteMenus == {<<>>, <<Menu(1, Some(2 * FracDen), Some(FracDen), Some(DecText(1)), Some(1001))>>}

SubByteDocs ==
    {Document(t, <<Record(o, l, 1)>>, m) :
        t \in {u \in 1..MaxSubTotal : u % 8 = 0},
        o \in 0..MaxSubOffset,
        l \in {k \in 1..MaxSubLength : k % 8 # 0},
        m \in SubByteMenus}

\* The bytes with at most two bits set or at most two bits clear, and the
\* mixed bytes 0x5A, 0xA5 and 0xDA.
BitsSet(b) == Cardinality({k \in 0..7 : BitSet(b, k)})

SubByteBytes ==
    {b \in 0..255 : BitsSet(b) <= 2 \/ BitsSet(b) >= 6} \cup {90, 165, 218}

SubByteArrays ==
    {<<b>> : b \in SubByteBytes} \cup ArraysOver({90, 165}, 2)

InitSubByte == InitDoc(SubByteDocs, SubByteArrays)

SpecSubByte == InitSubByte /\ [][Next]_vars

\* The descriptor last decoded and the unsigned byte its single index selects.
Decoded == decoded_ip # 0

DecodedIp == information_points[decoded_ip]

SubByteDecoded ==
    /\ Decoded
    /\ DecodedIp.bit_length % 8 # 0
    /\ Len(DecodedIp.value_indices) = 1
    /\ SelectionInBounds(DecodedIp, byte_values)

SelectedByte == Selection(DecodedIp, byte_values)[1]

BitOf(b, k) == (b \div Pow(2, k)) % 2

\* The number written by digits start .. end-1 (0-based) of the 8-digit
\* binary expansion of b, most significant digit first.
RECURSIVE ExpansionValue(_, _, _)
ExpansionValue(b, start, end) ==
    IF start >= end THEN 0
    ELSE 2 * ExpansionValue(b, start, end - 1) + BitOf(b, 7 - (end - 1))

\* C6: for a sub-byte field (bit_length % 8 # 0, one value index)
\* byte_to_real_value returns the unsigned integer of bits [start, end) of the
\* 8-bit expansion of the selected byte, start = 8 - (bit_offset +
\* bit_length), end = start + bit_length, which is
\* (byte >> bit_offset) mod 2^bit_length, for every byte and either value of
\* signed.  Stated for the descriptors that satisfy the invariants of the
\* data model and for the calls that return a value, where it already fails.
C6_SubByteBits ==
    (/\ SubByteDecoded
     /\ WellFormed(Total, DecodedIp.bit_offset, DecodedIp.bit_length)
     /\ result.kind = "value") =>
        result.val = Scale * ((SelectedByte \div Pow(2, DecodedIp.bit_offset))
                                    % Pow(2, DecodedIp.bit_length))

\* C6 as amended: the same, for the sub-byte fields with bit_offset +
\* bit_length <= 8 (start >= 0).
C6_SubByteBitsInLowByte ==
    (SubByteDecoded /\ DecodedIp.bit_offset + DecodedIp.bit_length <= 8) =>
        LET start == 8 - (DecodedIp.bit_offset + DecodedIp.bit_length)
        IN  /\ result.kind = "value"
            /\ result.val = Scale * ExpansionValue(SelectedByte, start,
                                                   start + DecodedIp.bit_length)
            /\ result.val = Scale * ((SelectedByte \div Pow(2, DecodedIp.bit_offset))
                                        % Pow(2, DecodedIp.bit_length))

\* Witness of C6: the example of the specification, total 8, bit_offset 2,
\* bit_length 3, byte 0x5A decoded to 6, here with signed = FALSE; and a byte
\* with the top bit set decoded with signed = TRUE.
C6_Witness ==
    /\ SubByteDecoded /\ Total = 8
    /\ DecodedIp.bit_offset = 2 /\ DecodedIp.bit_length = 3
    /\ \/ byte_values = <<90>> /\ ~decoded_signed /\ result = Returned(6 * Scale)
       \/ byte_values = <<218>> /\ decoded_signed /\ result = Returned(6 * Scale)

\* C7: the value decoded for a sub-byte field does not depend on gradient,
\* offset or display_format: a descriptor that differs only in those decodes
\* the byte array to the same outcome.
CalibrationVariants(ip) ==
    {[ip EXCEPT !.gradient = g, !.offset = o, !.display_format = d] :
        g \in {None, Some(3 * FracDen)},
        o \in {None, Some(5)},
        d \in {None, Some(0)}}

C7_SubByteUncalibrated ==
    (Decoded /\ DecodedIp.bit_length % 8 # 0) =>
        \A other \in CalibrationVariants(DecodedIp) :
            byte_to_real_value(other, byte_values, decoded_signed) = result

\* Witness of C7: a sub-byte field that a menu gave gradient 2.0, offset 1.0
\* and Dec.1, decoded to the bare bits 6 of 0x5A.
C7_Witness ==
    /\ SubByteDecoded
    /\ DecodedIp.gradient = Some(2 * FracDen)
    /\ DecodedIp.offset = Some(FracDen)
    /\ DecodedIp.display_format = Some(1)
    /\ DecodedIp.bit_offset = 2 /\ DecodedIp.bit_length = 3
    /\ byte_values = <<90>>
    /\ result = Returned(6 * Scale)

(***************************************************************************)
(* Multi-byte specification: one byte-aligned record of one or two bytes   *)
(* in process data of one or two bytes, without a menu or with a menu      *)
(* whose gradient, offset and displayFormat range over the sets below;     *)
(* the device delivers arrays of sample bytes, also shorter and longer     *)
(* than the process data.                                                  *)
(***************************************************************************)
MaxMultiTotal == 16

MaxMultiLength == 16

MaxMultiArrayLen == 2

ByteSample == {0, 1, 100, 127, 128, 255}

\* 1/8, 1/2 and 2.0; 1.0 and -3/8; Dec.0, Dec.1, Dec.2.
MenuGradients == {None, Some(1), Some(FracDen \div 2), Some(2 * FracDen)}

MenuOffsets == {None, Some(FracDen), Some(-3)}

MenuFormats == {None} \cup {Some(DecText(n)) : n \in 0..MaxDigits}

MultiByteMenus ==
    {<<>>} \cup {<<Menu(1, g, o, d, Some(1001))>> :
                    g \in MenuGradients, o \in MenuOffsets, d \in MenuFormats}

MultiByteDocs ==
    {Document(t, <<Record(o, l, 1)>>, m) :
        t \in {u \in 1..MaxMultiTotal : u % 8 = 0},
        o \in {0, 8},
        l \in {k \in 1..MaxMultiLength : k % 8 = 0},
        m \in MultiByteMenus}

MultiByteArrays == ArraysOver(ByteSample, MaxMultiArrayLen)

InitMultiByte == InitDoc(MultiByteDocs, MultiByteArrays)

SpecMultiByte == InitMultiByte /\ [][Next]_vars

MultiByteDecoded ==
    /\ Decoded
    /\ DecodedIp.bit_length % 8 = 0
    /\ SelectionInBounds(DecodedIp, byte_values)

\* The selected bytes read as a base-256 number, first byte most significant,
\* and its two's-complement reading.
RECURSIVE PlaceValueSum(_, _)
PlaceValueSum(bs, k) ==
    IF k > Len(bs) THEN 0
    ELSE bs[k] * Pow(256, Len(bs) - k) + PlaceValueSum(bs, k + 1)

RawInteger(bs, signed) ==
    IF signed /\ bs[1] >= 128
    THEN PlaceValueSum(bs, 1) - Pow(256, Len(bs))
    ELSE PlaceValueSum(bs, 1)

GradientOrOne(ip) == IF ip.gradient = None THEN FracDen ELSE Val(ip.gradient)

OffsetOrZero(ip) == IF ip.offset = None THEN 0 ELSE Val(ip.offset)

\* raw * gradient + offset as a count of 1/Scale.
ExactValue(ip, raw) ==
    (raw * GradientOrOne(ip) + OffsetOrZero(ip)) * (Scale \div FracDen)

Abs(x) == IF x < 0 THEN -x ELSE x

\* v is x rounded to d decimal digits: a multiple of 10^-d nearest to x, the
\* even multiple when x lies halfway between two.
RoundedTo(v, x, d) ==
    LET step == Scale \div Pow(10, d)
    IN  /\ v % step = 0
        /\ 2 * Abs(v - x) <= step
        /\ (2 * Abs(v - x) = step) => (v \div step) % 2 = 0

\* C8: for a multi-byte (byte-aligned) field byte_to_real_value returns
\* raw * gradient + offset, with gradient 1 and offset 0 when absent, rounded
\* to display_format decimal digits when display_format is set and unrounded
\* otherwise.
C8_Calibration ==
    MultiByteDecoded =>
        LET x == ExactValue(DecodedIp,
                            IntFromBytes(Selection(DecodedIp, byte_values),
                                         decoded_signed))
        IN  /\ result.kind = "value"
            /\ IF DecodedIp.display_format = None
               THEN result.val = x
               ELSE RoundedTo(result.val, x, Val(DecodedIp.display_format))

\* Witness of C8: the example of the specification, gradient 2.0, offset 1.0,
\* display_format 2 and raw 100 decoded to 201.0.
C8_Witness ==
    /\ MultiByteDecoded
    /\ DecodedIp.gradient = Some(2 * FracDen)
    /\ DecodedIp.offset = Some(FracDen)
    /\ DecodedIp.display_format = Some(2)
    /\ DecodedIp.bit_length = 16
    /\ byte_values = <<0, 100>>
    /\ result = Returned(201 * Scale)

\* C9: for a multi-byte field the raw integer is the big-endian reading of
\* the bytes at value_indices in list order, in two's complement by default
\* (n bytes with the top bit set give the value minus 2^(8n)) and unsigned
\* when signed is False.  The raw integer is what a field without
\* display_format returns before gradient and offset are applied.
C9_BigEndianRaw ==
    (MultiByteDecoded /\ DecodedIp.display_format = None) =>
        /\ result.kind = "value"
        /\ result.val = ExactValue(DecodedIp,
                                   RawInteger(Selection(DecodedIp, byte_values),
                                              decoded_signed))

\* Witness of C9: the two bytes 0x80 0x01 of an uncalibrated 16-bit field read
\* with the default signed = True as 32769 - 65536.
C9_Witness ==
    /\ MultiByteDecoded
    /\ DecodedIp.bit_length = 16
    /\ DecodedIp.gradient = None /\ DecodedIp.offset = None
    /\ DecodedIp.display_format = None
    /\ byte_values = <<128, 1>>
    /\ decoded_signed
    /\ result = Returned((32769 - 65536) * Scale)

\* C10: decoding a field against a byte array whose length is not greater
\* than the largest index in value_indices fails with DecodeLengthError and
\* returns no value.
MaxIndex(ip) == CHOOSE m \in IndexSet(ip) : \A k \in IndexSet(ip) : k <= m

ArrayTooShort == Decoded /\ Len(byte_values) <= MaxIndex(DecodedIp)

ExpectedBytes == Ceil8(Total)

IndexOutside(ip) == \E k \in IndexSet(ip) : k \notin 0..(ExpectedBytes - 1)

\* C11: a decode never returns a value computed from a truncated or
\* misaligned byte range: against a byte array shorter than
\* ceil(total_bit_length / 8) bytes, and for a field with a value index
\* outside 0..ceil(total_bit_length / 8) - 1 (negative ones included), the
\* decode fails instead of returning a value.
C11_NoValueFromTruncated ==
    (/\ Decoded
     /\ \/ /\ WellFormed(Total, DecodedIp.bit_offset, DecodedIp.bit_length)
           /\ Len(byte_values) < ExpectedBytes
        \/ IndexOutside(DecodedIp))
    => result.kind # "value"

\* C12: every InformationPoint of a compiled IODD has bit_length >= 1 and
\* bit_offset + bit_length <= total_bit_length, whatever schema the compiler
\* accepted.
C12_DescriptorsInsideProcessData ==
    Compiled =>
        \A i \in IPs :
            /\ information_points[i].bit_length >= 1
            /\ information_points[i].bit_offset + information_points[i].bit_length
                  <= Total

(***************************************************************************)
(* Repeated decoding (multi-byte specification)                            *)
(***************************************************************************)

\* The last call had the descriptor and the signed argument of the first one.
SameAsFirstCall ==
    /\ Decoded
    /\ decoded_ip = first_call.ip
    /\ decoded_signed = first_call.signed

\* C13: decoding is idempotent and deterministic: byte_to_real_value called
\* again with the same byte array, descriptor and signed argument gives the
\* outcome of the first call, whatever decode calls were made in between.
C13_Idempotent == SameAsFirstCall => result = first_call.outcome

\* Witness of C13: the first call returned a value, a call with another
\* signed argument followed and returned another value, and the first call
\* was made again.
C13_Witness ==
    /\ SameAsFirstCall
    /\ first_call.interleaved
    /\ result.kind = "value"
    /\ byte_to_real_value(DecodedIp, byte_values, ~decoded_signed) # result

(***************************************************************************)
(* Compilation specification: 16-bit documents whose records may declare a *)
(* ValueRange, with menus over every combination of gradient, offset,      *)
(* display format and unit code (one code without entry in the unit        *)
(* definitions), documents of two records of which menus match both, one   *)
(* or none, documents lacking a required element, and the unit definitions *)
(* file present or missing.                                                *)
(***************************************************************************)

\* A RecordItem whose SimpleDatatype may carry a ValueRange.
RangedRecord(bit_offset, bit_length, subindex, range) ==
    [Record(bit_offset, bit_length, subindex) EXCEPT
        !.simple = Some([bitLength |-> Some(bit_length), valueRange |-> range])]

ValueRange(lower, upper) == Some([lowerValue |-> lower, upperValue |-> upper])

CompileRanges ==
    {None} \cup {ValueRange(lo, up) : lo \in {-8, -1, 0}, up \in {7, 100}}

CompileOffsets == MenuOffsets \cup {Some(0)}

\* 1001 has an entry in the unit definitions, 9999 has none.
CompileUnitCodes == {None, Some(1001), Some(9999)}

CompileMenus ==
    {<<>>} \cup {<<Menu(1, g, o, d, u)>> :
                    g \in MenuGradients, o \in CompileOffsets,
                    d \in MenuFormats, u \in CompileUnitCodes}

CompileSingles ==
    {Document(16, <<RangedRecord(8, 8, 1, r)>>, m) :
        r \in CompileRanges, m \in CompileMenus}

PairMenus ==
    {<<>>,
     <<Menu(1, Some(1), Some(0), Some(DecText(0)), Some(1001))>>,
     <<Menu(2, Some(2 * FracDen), Some(FracDen), None, None)>>,
     <<Menu(1, Some(1), Some(0), Some(DecText(0)), Some(1001)),
       Menu(2, Some(2 * FracDen), Some(FracDen), None, Some(1137))>>}

PairRanges == {None, ValueRange(-8, 100), ValueRange(-1, 7)}

CompilePairs ==
    {Document(16, <<RangedRecord(8, 8, 1, r1), RangedRecord(0, 8, 2, r2)>>, m) :
        r1 \in PairRanges, r2 \in PairRanges, m \in PairMenus}

\* A complete document, and the documents it becomes when the
\* DeviceVariant elements, the Datatype of ProcessDataIn, the Text of the
\* record's name or the record's datatype are missing.
CompleteDoc ==
    Document(16, <<RangedRecord(8, 8, 1, ValueRange(0, 100))>>,
             <<Menu(1, Some(1), Some(0), Some(DecText(1)), Some(1001))>>)

NoVariantsDoc == [CompleteDoc EXCEPT !.family = <<>>]

NoProcessDataInDoc == [CompleteDoc EXCEPT !.pdin = FALSE]

NoNameTextDoc == [CompleteDoc EXCEPT !.texts = <<>>]

NoDatatypeDoc ==
    [CompleteDoc EXCEPT !.records = <<[Record(8, 8, 1) EXCEPT !.simple = None]>>]

IncompleteDocs == {NoVariantsDoc, NoProcessDataInDoc, NoNameTextDoc, NoDatatypeDoc}

CompileDocs == CompileSingles \cup CompilePairs \cup IncompleteDocs

CompileArrays == {<<90, 165>>}

InitCompile == InitEnv(CompileDocs, BOOLEAN, CompileArrays)

SpecCompile == InitCompile /\ [][Next]_vars

\* The ValueRange the document declares for the i-th record (the documents
\* of this specification give every record an inline SimpleDatatype).
DeclaredRange(i) == Val(doc.records[i].simple).valueRange

DigitsOf(ip) == IF ip.display_format = None THEN 0 ELSE Val(ip.display_format)

\* bound is raw * gradient + offset rounded as round(x, display_format) does.
CalibratedBound(bound, ip, raw) ==
    /\ bound # None
    /\ RoundedTo(Val(bound), ExactValue(ip, raw), DigitsOf(ip))

\* C15: in a compiled IODD, a descriptor whose gradient and offset are both
\* known has each declared raw bound replaced by
\* round(raw * gradient + offset, display_format), display_format being the
\* digit count converted from "Dec.N"; the conversion is applied once.
C15_BoundsCalibratedOnce ==
    Compiled =>
        \A i \in IPs :
            LET ip == information_points[i]
            IN  (/\ DeclaredRange(i) # None
                 /\ ip.gradient # None
                 /\ ip.offset # None)
                => /\ ip.display_format # None
                        => Val(ip.display_format) \in 0..MaxDigits
                   /\ CalibratedBound(ip.low_val, ip,
                                      Val(DeclaredRange(i)).lowerValue)
                   /\ CalibratedBound(ip.up_val, ip,
                                      Val(DeclaredRange(i)).upperValue)

\* Witness of C15: raw bounds 0 and 7 with gradient 1/8, offset 0 and
\* "Dec.1" compiled to 0.0 and 0.9 (0.875 before rounding).
C15_Witness ==
    /\ Compiled
    /\ IPs = {1}
    /\ DeclaredRange(1) = ValueRange(0, 7)
    /\ information_points[1].gradient = Some(1)
    /\ information_points[1].offset = Some(0)
    /\ information_points[1].display_format = Some(1)
    /\ information_points[1].low_val = Some(0)
    /\ information_points[1].up_val = Some(9 * (Scale \div 10))

\* The bounds of the i-th descriptor cannot be calibrated: the record
\* declares no ValueRange, or the gradient or the offset is unknown.
Uncalibratable(i) ==
    \/ DeclaredRange(i) = None
    \/ information_points[i].gradient = None
    \/ information_points[i].offset = None

BoundsOf(i) == {information_points[i].low_val, information_points[i].up_val}

\* C16: a bound that cannot be calibrated is compiled to a marker that
\* differs from every numeric bound, so no descriptor of the IODD whose
\* bounds were calibrated has a bound equal to it (a calibrated -1 included).
C16_UnknownBoundDistinguishable ==
    Compiled =>
        \A i \in IPs, j \in IPs :
            (Uncalibratable(i) /\ ~Uncalibratable(j))
            => BoundsOf(i) \cap BoundsOf(j) = {}

\* The Unit Table entry for a unit code, "N/A" for the absent code.
UnitOf(unit_code) ==
    IF unit_code = None THEN "N/A" ELSE UnitTable[Val(unit_code)]

\* C17: in a compiled IODD the units of every descriptor is the Unit Table
\* entry for its unit_code, "N/A" for an absent unit_code, whether a menu
\* matched the descriptor or not.
C17_UnitsResolved ==
    Compiled =>
        \A i \in IPs :
            information_points[i].units = Some(UnitOf(information_points[i].unit_code))

\* The document refers to a unit code the unit definitions have no entry for.
UnknownCodeReferenced ==
    \E m \in DOMAIN doc.menus :
        /\ doc.menus[m].ref # None
        /\ Val(doc.menus[m].ref).unitCode # None
        /\ Val(Val(doc.menus[m].ref).unitCode) \notin DOMAIN UnitTable

\* IODD(file) raised e and left no descriptors.
FailedWith(e) == pc = "failed" /\ error = e /\ information_points = <<>>

RequiredElementAbsent ==
    \/ doc.family = <<>>
    \/ ~doc.pdin
    \/ \E r \in DOMAIN doc.records :
          \/ doc.records[r].textId \notin DOMAIN doc.texts
          \/ /\ doc.records[r].simple = None
             /\ doc.records[r].datatypeId \notin DOMAIN doc.datatypes

\* C19: IODD(file) fails whenever a required element of the document is
\* absent, and never yields an IODD with an empty family or without
\* total_bit_length.
C19_IncompleteRejected ==
    /\ (pc # "new" /\ RequiredElementAbsent) => pc = "failed"
    /\ Compiled => (family # <<>> /\ total_bit_length # None)

(***************************************************************************)
(* Polling specification: main's loop over NumPorts ports whose product    *)
(* name reads fail, give the empty name, a name of the IODD's family or a  *)
(* name of no family; IODDs of one or two descriptors with and without     *)
(* menus, one of them without device variants; byte arrays of one byte     *)
(* (too short for the descriptor at bit 0) and of two bytes.               *)
(***************************************************************************)
MainDocs ==
    {CompleteDoc, NoVariantsDoc}
    \cup {Document(16, <<RangedRecord(8, 8, 1, None),
                         RangedRecord(0, 8, 2, ValueRange(-1, 7))>>, m) :
             m \in PairMenus}

MainArrays == {<<90>>, <<90, 165>>}

InitMain == InitEnv(MainDocs, {TRUE}, MainArrays)

SpecMain == InitMain /\ [][NextMain]_vars

\* C14: once the IODD is compiled, no operation changes it or the byte
\* array: byte_to_real_value, record_readings and match_port_to_iodd (and
\* check_connections) leave family, total_bit_length, every field of every
\* descriptor and the raw byte array as they were.
C14_FrozenAfterCompile ==
    [][Compiled => UNCHANGED <<family, total_bit_length, information_points,
                              byte_values>>]_vars

\* Witness of C14: all three operations have run on the compiled IODD: a port
\* has its IODD matched, record_readings has committed a row of two
\* readings, and byte_to_real_value has been called.
C14_Witness ==
    /\ Compiled
    /\ Decoded
    /\ \E i \in DOMAIN ports : ports[i].iodd # None
    /\ committed
    /\ rows # <<>>
    /\ Len(rows[1].readings) = 2
    /\ information_points = parse_information_points(doc)

\* The entries at position i of a row belong to the i-th descriptor.
EntryOf(row, i) ==
    LET ip == information_points[i]
    IN  /\ row.ips[i] = ip.name
        /\ Returned(row.readings[i]) = byte_to_real_value(ip, byte_values, FALSE)
        /\ row.lower_limits[i] = FloatOf(ip.low_val)
        /\ row.upper_limits[i] = FloatOf(ip.up_val)
        /\ row.units[i] = StrOf(ip.units)

DecodeErrors == {"IndexError", "ValueError"}

\* C21: a decode error for the reading of one port never ends the polling
\* loop: it is caught at the call site, the port is skipped for that cycle
\* only, the other connected ports are recorded, and the loop goes on to the
\* next cycle.
C21_DecodeErrorsCaught ==
    ~(main_pc = "crashed" /\ main_error \in DecodeErrors)

\* C28: when match_port_to_iodd has returned normally, every port with a
\* sensor has an IODD whose family lists that sensor (IODDNotFoundError is
\* raised otherwise), after any sequence of connects, disconnects and
\* reconnects, a different sensor reconnected to a port that had an IODD
\* included.
C28_SensorInFamilyOfIodd ==
    (main_pc = "record" /\ change_made) =>
        \A i \in DOMAIN ports :
            ports[i].sensor # None =>
                /\ ports[i].iodd # None
                /\ \E k \in DOMAIN family : family[k] = Val(ports[i].sensor)

\* The i-th port follows what the server gave for it.
FollowsServer(port, read) ==
    /\ (read # None /\ read # Some("")) => (port.connected /\ port.sensor = read)
    /\ read = None => (~port.connected /\ port.sensor = None)

\* C29: after every check_connections call each port follows the server (a
\* product name read makes it connected with that name as sensor,
\* BadNotConnected makes it disconnected with sensor None), also when the
\* sensor was replaced without a disconnect being seen, and change_made is
\* true exactly when the connected flag or the sensor of some port changed.
C29_PortsFollowServer ==
    [][(main_pc = "check" /\ main_pc' # "check") =>
          /\ \A i \in DOMAIN ports : FollowsServer(ports'[i], name_reads'[i])
          /\ change_made' =
                (\E i \in DOMAIN ports :
                    \/ ports'[i].connected # ports[i].connected
                    \/ ports'[i].sensor # ports[i].sensor)]_vars

\* C30: for every sub-byte field that satisfies the invariants of the data
\* model and lies inside one byte of the process data, in whichever byte of
\* the array, byte_to_real_value on the complete process data returns a
\* value, and it is bits bit_offset .. bit_offset + bit_length - 1 of the
\* whole process data read as an unsigned integer.
C30_SubByteAnywhere ==
    (/\ Decoded
     /\ DecodedIp.bit_length % 8 # 0
     /\ WellFormed(Total, DecodedIp.bit_offset, DecodedIp.bit_length)
     /\ FitsInOneByte(DecodedIp)
     /\ Len(byte_values) = ExpectedBytes) =>
        /\ result.kind = "value"
        /\ result.val =
              Scale * ((BigEndianUnsigned(byte_values)
                            \div Pow(2, DecodedIp.bit_offset))
                          % Pow(2, DecodedIp.bit_length))

(***************************************************************************)
(* Parsing specification: documents of two records over 16 bits of         *)
(* process data.  A record's Name refers to either text, its subindex is   *)
(* its own or the other record's, and its datatype is inline (8 bits with  *)
(* or without a ValueRange, or without bitLength) or a DatatypeRef to one  *)
(* of two shared Datatypes (8 bits with a ValueRange; no bitLength).  Up   *)
(* to two menus out of: two M_MR_SR_Observation menus on subindex 1 (one   *)
(* with every attribute, one with none), M_MR_SR_Observation_X_1137 on     *)
(* subindex 2, a menu of another name with a RecordItemRef, and an         *)
(* observation menu without RecordItemRef.                                 *)
(***************************************************************************)
ParseDatatypes ==
    <<[bitLength |-> Some(8), valueRange |-> ValueRange(-8, 100)],
      [bitLength |-> None, valueRange |-> None]>>

ParseDatas ==
    {[simple |-> Some([bitLength |-> Some(8), valueRange |-> None]), datatypeId |-> 0],
     [simple |-> Some([bitLength |-> Some(8), valueRange |-> ValueRange(-1, 7)]),
      datatypeId |-> 0],
     [simple |-> Some([bitLength |-> None, valueRange |-> None]), datatypeId |-> 0],
     [simple |-> None, datatypeId |-> 1],
     [simple |-> None, datatypeId |-> 2]}

ParseRecord(bit_offset, subindex, textId, data) ==
    [textId |-> textId, bitOffset |-> bit_offset, subindex |-> subindex,
     simple |-> data.simple, datatypeId |-> data.datatypeId]

ParseRecords ==
    {<<ParseRecord(8, s, t, d1), ParseRecord(0, 2, 1, d2)>> :
        s \in {1, 2}, t \in {1, 2}, d1 \in ParseDatas, d2 \in ParseDatas}

QualifiedId(code) ==
    [prefix |-> TRUE,
     segs |-> <<[isCode |-> FALSE, code |-> None], [isCode |-> TRUE, code |-> code]>>]

OtherId == [prefix |-> FALSE, segs |-> <<>>]

FullMenu == Menu(1, Some(2 * FracDen), Some(FracDen), Some(DecText(1)), Some(1001))

BareMenu == Menu(1, None, None, None, None)

QualifiedMenu ==
    [Menu(2, Some(1), None, Some(DecText(0)), Some(1137)) EXCEPT
        !.id = QualifiedId(Some(1137))]

OtherMenu ==
    [Menu(1, Some(3 * FracDen), Some(0), Some(DecText(2)), Some(1010)) EXCEPT
        !.id = OtherId]

MenuWithoutRef == [FullMenu EXCEPT !.ref = None]

ParseMenus == {FullMenu, BareMenu, QualifiedMenu, OtherMenu, MenuWithoutRef}

ParseMenuLists ==
    {<<>>} \cup {<<m>> : m \in ParseMenus}
           \cup {<<m1, m2>> : m1 \in ParseMenus, m2 \in ParseMenus}

ParseDocs ==
    {[Document(16, rs, ms) EXCEPT !.datatypes = ParseDatatypes] :
        rs \in ParseRecords, ms \in ParseMenuLists}

ParseArrays == {<<90, 165>>}

InitParse == InitDoc(ParseDocs, ParseArrays)

SpecParse == InitParse /\ [][Next]_vars

\* The datatype element of a record of the document: its SimpleDatatype, or
\* the Datatype its DatatypeRef names.
DatatypeOf(rec) ==
    IF rec.simple # None THEN Val(rec.simple) ELSE doc.datatypes[rec.datatypeId]

\* C24: Pass 1 produces one InformationPoint per record, in document order,
\* with the record's bit_offset and subindex, the name that the text table
\* gives for the textId of the record's Name, and the raw lowerValue and
\* upperValue exactly when the record's datatype declares a ValueRange (no
\* bounds otherwise); the compiled descriptors keep these, and a bound that
\* is calibrated is calibrated from the record's own raw bound.
C24_PassOneDescriptors ==
    Compiled =>
        /\ Len(Pass1(doc)) = Len(doc.records)
        /\ Len(information_points) = Len(doc.records)
        /\ \A r \in DOMAIN doc.records :
              LET rec == doc.records[r]
                  range == DatatypeOf(rec).valueRange
                  first == Pass1(doc)[r]
                  ip == information_points[r]
              IN  /\ first.name = doc.texts[rec.textId]
                  /\ first.bit_offset = rec.bitOffset
                  /\ first.subindex = rec.subindex
                  /\ IF range = None
                     THEN first.low_val = None /\ first.up_val = None
                     ELSE /\ first.low_val = Some(Val(range).lowerValue)
                          /\ first.up_val = Some(Val(range).upperValue)
                  /\ ip.name = doc.texts[rec.textId]
                  /\ ip.bit_offset = rec.bitOffset
                  /\ ip.subindex = rec.subindex
                  /\ (range # None /\ ip.gradient # None /\ ip.offset # None) =>
                        /\ CalibratedBound(ip.low_val, ip, Val(range).lowerValue)
                        /\ CalibratedBound(ip.up_val, ip, Val(range).upperValue)

\* Witness of C24: a compiled document whose first record has subindex 1 and
\* the name of text 2 ("Pressure") and declares the range -1 .. 7 inline,
\* calibrated by gradient 2.0 and offset 1.0 to -1.0 .. 15.0, and whose
\* second record has subindex 2, the name of text 1 and no range.
C24_Witness ==
    /\ Compiled
    /\ doc.records[1].textId = 2 /\ doc.records[1].subindex = 1
    /\ DatatypeOf(doc.records[1]).valueRange = ValueRange(-1, 7)
    /\ DatatypeOf(doc.records[2]).valueRange = None
    /\ information_points[1].name = "Pressure"
    /\ information_points[1].gradient = Some(2 * FracDen)
    /\ information_points[1].low_val = Some((-1) * Scale)
    /\ information_points[1].up_val = Some(15 * Scale)
    /\ information_points[2].name = "Temperature"
    /\ information_points[2].subindex = 2

\* C25: the bit_length of a compiled descriptor is the bitLength of the
\* record's inline datatype, or of the shared datatype that its DatatypeRef
\* names when it has none inline, and 1 when that datatype carries no
\* bitLength.
C25_BitLengthResolved ==
    Compiled =>
        \A r \in DOMAIN doc.records :
            LET data == DatatypeOf(doc.records[r])
            IN  information_points[r].bit_length =
                    IF data.bitLength = None THEN 1 ELSE Val(data.bitLength)

\* Witness of C25: the first record refers to the shared datatype without
\* bitLength and compiles to bit_length 1, the second to the shared datatype
\* of 8 bits.
C25_Witness ==
    /\ Compiled
    /\ doc.records[1].simple = None /\ doc.records[1].datatypeId = 2
    /\ doc.records[2].simple = None /\ doc.records[2].datatypeId = 1
    /\ information_points[1].bit_length = 1
    /\ information_points[2].bit_length = 8

\* The calibration attributes of a descriptor, those a RecordItemRef gives
\* (displayFormat "Dec.N" as the digit count N) and those of a descriptor no
\* menu has touched.
CalibrationIn(ip) ==
    [gradient |-> ip.gradient, offset |-> ip.offset,
     display_format |-> ip.display_format, unit_code |-> ip.unit_code,
     units |-> ip.units]

FormatDigits(displayFormat) ==
    IF displayFormat = None THEN None
    ELSE Some(CHOOSE n \in 0..9 : DecText(n) = Val(displayFormat))

CalibrationOf(ref) ==
    [gradient |-> ref.gradient, offset |-> ref.offset,
     display_format |-> FormatDigits(ref.displayFormat),
     unit_code |-> ref.unitCode, units |-> Some(UnitOf(ref.unitCode))]

NoCalibration ==
    [gradient |-> None, offset |-> None, display_format |-> None,
     unit_code |-> None, units |-> None]

\* The menus of the document whose id follows the naming convention and
\* whose RecordItemRef names subindex s.
ObservationMenus(s) ==
    {m \in DOMAIN doc.menus :
        /\ MenuMatches(doc.menus[m].id, iodd_unitcodes(UnitCodesInput(doc)))
        /\ doc.menus[m].ref # None
        /\ Val(doc.menus[m].ref).subindex = s}

\* C26: Pass 2 joins by subindex.  A descriptor whose subindex an
\* observation menu references has the gradient, offset, display_format,
\* unit_code and units of such a menu, and so has every descriptor of the
\* same subindex; a descriptor whose subindex no observation menu references
\* has none of them, whatever menus of other names, menus without
\* RecordItemRef and menus on other subindices the document holds.
C26_JoinBySubindex ==
    Compiled =>
        \A i \in IPs :
            LET ip == information_points[i]
                ms == ObservationMenus(ip.subindex)
            IN  /\ ms = {} => CalibrationIn(ip) = NoCalibration
                /\ ms # {} =>
                      \E m \in ms :
                          CalibrationIn(ip) = CalibrationOf(Val(doc.menus[m].ref))
                /\ \A j \in IPs :
                      information_points[j].subindex = ip.subindex =>
                          CalibrationIn(information_points[j]) = CalibrationIn(ip)

\* Witness of C26: a menu of another name on subindex 1 followed by the
\* qualified observation menu on subindex 2: the descriptor of subindex 1
\* has no calibration, the descriptor of subindex 2 has the menu's gradient,
\* Dec.0 and unit 1137 ("bar").
C26_Witness ==
    /\ Compiled
    /\ doc.menus = <<OtherMenu, QualifiedMenu>>
    /\ information_points[1].subindex = 1
    /\ information_points[2].subindex = 2
    /\ CalibrationIn(information_points[1]) = NoCalibration
    /\ CalibrationIn(information_points[2]) = CalibrationOf(Val(QualifiedMenu.ref))
    /\ information_points[2].units = Some("bar")

Last(ms) == CHOOSE m \in ms : \A k \in ms : k <= m

\* C27: when several observation menus reference one subindex, the
\* descriptor's gradient, offset, display_format, unit_code and units are
\* those of the last of them in document order, absent where that menu
\* leaves them absent.
C27_LastMenuWins ==
    Compiled =>
        \A i \in IPs :
            LET ms == ObservationMenus(information_points[i].subindex)
            IN  ms # {} =>
                    CalibrationIn(information_points[i]) =
                        CalibrationOf(Val(doc.menus[Last(ms)].ref))

\* Witness of C27: the menu with every attribute followed by the menu with
\* none, both on subindex 1: the descriptor has no gradient, offset,
\* display_format or unit_code, and the units of the absent code.
C27_Witness ==
    /\ Compiled
    /\ doc.menus = <<FullMenu, BareMenu>>
    /\ information_points[1].subindex = 1
    /\ CalibrationIn(information_points[1]) =
          [NoCalibration EXCEPT !.units = Some("N/A")]

(***************************************************************************)
(* Dashboard specification: the process of app.py, whose /collection       *)
(* handler builds an IODD object from the document on every request, next  *)
(* to the construction and the decode calls of the polling process, over   *)
(* the documents of the compilation specification.                         *)
(***************************************************************************)
MaxRequests == 2

\* app.py collection, lines 73-87: IODD(entry["file"]) for every entry of the
\* collection index, answered as asdict(iodd); an exception of the
\* constructor leaves the handler (status 500).
Collection ==
    /\ app_constructed < MaxRequests
    /\ IF CompileError(doc, units_file) = "none"
       THEN /\ app_constructed' = app_constructed + 1
            /\ app_response' =
                  Some([status |-> 200,
                        iodds |-> <<[family |-> doc.family,
                                     total_bit_length |-> Some(doc.bitLength),
                                     information_points |->
                                         parse_information_points(doc)]>>])
       ELSE /\ app_constructed' = app_constructed
            /\ app_response' = Some([status |-> 500, iodds |-> <<>>])
    /\ UNCHANGED <<doc, units_file, pc, error, iodd_vars, byte_values, call_vars,
                   main_vars, callers>>

NextApp == Next \/ Collection

InitApp == InitEnv(CompileDocs, BOOLEAN, CompileArrays)

SpecApp == InitApp /\ [][NextApp]_vars

\* C22: a DeviceDescription is constructed at most once per schema document
\* in a process and then reused: no process builds a second IODD object from
\* the document after its first.
C22_ConstructedOnce ==
    app_constructed <= 1

(***************************************************************************)
(* Concurrency specification: NumCallers callers inside byte_to_real_value *)
(* at the same time, each with its own byte array, descriptor and signed   *)
(* flag, on the descriptors of one compiled IODD.  A call is two steps:    *)
(* the selection of its bytes into a local list, and the computation of    *)
(* the value from that list.  The IODD has two descriptors of one byte,    *)
(* without menus or with a menu each.                                      *)
(***************************************************************************)
ConcurrentArrays == {<<90, 165>>, <<165, 90>>, <<90>>}

ConcurrentDocs ==
    {Document(16, <<RangedRecord(8, 8, 1, None),
                    RangedRecord(0, 8, 2, ValueRange(-1, 7))>>, m) :
        m \in {p \in PairMenus : Len(p) # 1}}

\* A caller enters byte_to_real_value with its own arguments.
Call(c) ==
    /\ pc = "compiled"
    /\ callers[c].pc \in {"idle", "returned"}
    /\ \E i \in DOMAIN information_points, signed \in BOOLEAN,
          bv \in ConcurrentArrays :
          callers' = [callers EXCEPT ![c] =
                         [pc |-> "called", ip |-> i, signed |-> signed,
                          bytes |-> bv, selected |-> <<>>, result |-> NoResult,
                          overlapped |-> FALSE]]
    /\ UNCHANGED <<doc, units_file, pc, error, iodd_vars, byte_values, call_vars,
                   main_vars, app_vars>>

\* [byte_values[i] for i in self.value_indices], lines 102 and 124: the bytes
\* go into a list local to the call, or IndexError leaves the call.
Select(c) ==
    /\ callers[c].pc = "called"
    /\ LET ip == information_points[callers[c].ip]
       IN  callers' = [callers EXCEPT ![c] =
               IF SelectionInBounds(ip, callers[c].bytes)
               THEN [@ EXCEPT !.pc = "selected",
                              !.selected = Selection(ip, callers[c].bytes)]
               ELSE [@ EXCEPT !.pc = "returned",
                              !.result = Raised("IndexError")]]
    /\ UNCHANGED <<doc, units_file, pc, error, iodd_vars, byte_values, call_vars,
                   main_vars, app_vars>>

\* The rest of byte_to_real_value on the list of selected bytes.
FromSelected(ip, selected, signed) ==
    byte_to_real_value(
        [ip EXCEPT !.value_indices = [k \in 1..Len(selected) |-> k - 1]],
        selected, signed)

\* Variant of Compute that takes the selected bytes from a buffer shared by
\* the callers: the bytes of any call that has selected and not yet
\* computed.
ComputeSharingSelection(c) ==
    /\ callers[c].pc = "selected"
    /\ \E o \in DOMAIN callers :
          /\ callers[o].pc = "selected"
          /\ callers' = [callers EXCEPT ![c] =
                [@ EXCEPT !.pc = "returned",
                          !.result = FromSelected(information_points[callers[c].ip],
                                                  callers[o].selected,
                                                  callers[c].signed),
                          !.overlapped = \E p \in DOMAIN callers \ {c} :
                                            callers[p].pc = "selected"]]
    /\ UNCHANGED <<doc, units_file, pc, error, iodd_vars, byte_values, call_vars,
                   main_vars, app_vars>>

\* int.from_bytes(...) and what follows, lines 101-130, on the call's own
\* list; overlapped records that another call had its bytes selected and
\* its value not yet computed at that moment.
Compute(c) ==
    /\ callers[c].pc = "selected"
    /\ callers' = [callers EXCEPT ![c] =
          [@ EXCEPT !.pc = "returned",
                    !.result = FromSelected(information_points[callers[c].ip],
                                            callers[c].selected,
                                            callers[c].signed),
                    !.overlapped = \E p \in DOMAIN callers \ {c} :
                                      callers[p].pc = "selected"]]
    /\ UNCHANGED <<doc, units_file, pc, error, iodd_vars, byte_values, call_vars,
                   main_vars, app_vars>>

NextConcurrent ==
    \/ IODD_post_init
    \/ \E c \in DOMAIN callers : Call(c)
    \/ \E c \in DOMAIN callers : Select(c)
    \/ \E c \in DOMAIN callers : Compute(c)

InitConcurrent == InitDoc(ConcurrentDocs, {<<90, 165>>})

SpecConcurrent == InitConcurrent /\ [][NextConcurrent]_vars

\* C23: decode calls that run concurrently, each on its own byte array
\* against the shared IODD, return what the same calls return when run alone
\* one after another, and leave the shared descriptors as compilation made
\* them.
C23_ConcurrentAsSequential ==
    /\ \A c \in DOMAIN callers :
          callers[c].pc = "returned" =>
              callers[c].result =
                  byte_to_real_value(information_points[callers[c].ip],
                                     callers[c].bytes, callers[c].signed)
    /\ Compiled => information_points = parse_information_points(doc)

\* Witness of C23: the first caller has returned a value for a descriptor
\* while the second caller, on the same descriptor with another byte array,
\* had its bytes selected and its value not yet computed.
C23_Witness ==
    /\ callers[1].pc = "returned"
    /\ callers[1].overlapped
    /\ callers[1].result.kind = "value"
    /\ callers[2].pc = "selected"
    /\ callers[2].ip = callers[1].ip
    /\ callers[2].bytes # callers[1].bytes

====
